---- MODULE Spec2Model ----
(***************************************************************************)
(* The recommender core of the retail dashboard:                           *)
(*   recommender_system.py  train_and_save_model,                          *)
(*                          get_recommendations_for_user                   *)
(*   app.py                 the script run that loads the purchase data    *)
(*                          and renders the recommender and report pages   *)
(*                                                                         *)
(* Amounts are whole currency units.  Scaled amounts and estimated         *)
(* ratings are in thousandths (693 is ln 2 = 0.693).                       *)
(***************************************************************************)
EXTENDS Integers, Sequences, FiniteSets, TLC

VARIABLES
    data,          \* the purchase DataFrame of the script run: a sequence of rows
    data_surprise, \* local `data_surprise` of train_and_save_model
    race,          \* the invocations of train_and_save_model running concurrently
    products_df,   \* the generator's product table
    purchases,     \* the generator's list of purchase records
    modelFile,     \* model.pkl on disk
    paramsFile,    \* best_params.pkl on disk
    pc,            \* position of the script run
    page,          \* the page whose code is running
    model,         \* local `model` of train_and_save_model, then of the page
    best_params,   \* local `best_params` of train_and_save_model
    fitted,        \* the current call has run the grid search and the fit
    recs,          \* last result of get_recommendations_for_user
    user_id,       \* its customer argument
    n,             \* its count argument
    seen,          \* history: which artifacts existed when the current call began
    coldStart,     \* history: no artifact was on disk before the first call
    calls,         \* history: calls begun so far, counted 0, 1, 2 = many
    returned,      \* history: calls that returned so far, counted 0, 1, 2 = many
    prevModel,     \* history: model returned by the previous returning call
    wrotePrev,     \* history: an artifact was written since the previous
                   \*          returning call began
    wroteCur       \* history: an artifact was written since the current call began

vars == <<data, data_surprise, race, products_df, purchases, modelFile, paramsFile, pc, page, model, best_params, fitted,
          recs, user_id, n, seen, coldStart, calls, returned, prevModel,
          wrotePrev, wroteCur>>

(***************************************************************************)
(* Bounds of the checked instances.                                        *)
(***************************************************************************)
MaxRows == 3
MaxCount == 3

Customers == {1, 2}
Products == {1, 2, 3}
\* customer ids a request may name: the known ones and one that never bought
Users == Customers \cup {3}
Counts == 0..MaxCount

\* product definitions the generated purchases copy from
Catalog ==
    [p \in Products |->
        CASE p = 1 -> [Category |-> "Electronics", Subcategory |-> "Laptops", Price |-> 3]
          [] p = 2 -> [Category |-> "Electronics", Subcategory |-> "Headphones", Price |-> 1]
          [] OTHER -> [Category |-> "Clothing", Subcategory |-> "Shirts", Price |-> 2]]

PurchaseRow(c, p) ==
    [Customer_ID |-> c, Product_ID |-> p,
     Category |-> Catalog[p].Category, Subcategory |-> Catalog[p].Subcategory,
     Purchase_Amount |-> Catalog[p].Price]

PurchaseRows == {PurchaseRow(c, p) : c \in Customers, p \in Products}

SeqsUpTo(S, k) == UNION {[1..m -> S] : m \in 0..k}

\* purchase corpora of up to MaxRows rows
Corpora == SeqsUpTo(PurchaseRows, MaxRows)

(***************************************************************************)
(* Sequence helpers standing for the pandas / Python built-ins used.       *)
(***************************************************************************)
Min2(a, b) == IF a <= b THEN a ELSE b
Max2(a, b) == IF a >= b THEN a ELSE b

Range(s) == {s[i] : i \in DOMAIN s}

RECURSIVE KeepFirst(_, _)
KeepFirst(s, earlier) ==
    IF s = <<>> THEN <<>>
    ELSE IF Head(s) \in earlier THEN KeepFirst(Tail(s), earlier)
    ELSE <<Head(s)>> \o KeepFirst(Tail(s), earlier \cup {Head(s)})

\* Series.unique() and DataFrame.drop_duplicates(): the distinct values in
\* order of first appearance
Unique(s) == KeepFirst(s, {})

\* data[col]
Column(df, col) == [i \in DOMAIN df |-> df[i][col]]

\* mutant: the slice keeps the end of the list, seq[-k:]
SliceTo_Tail(s, k) ==
    IF k >= 0 THEN SubSeq(s, Len(s) - Min2(k, Len(s)) + 1, Len(s))
    ELSE SubSeq(s, 1, Max2(Len(s) + k, 0))

\* mutant: the [:n] slice is dropped
SliceTo_NoTruncation(s, k) == s

\* seq[:k], Python slicing (a negative k drops the last -k entries)
SliceTo(s, k) ==
    IF k >= 0 THEN SubSeq(s, 1, Min2(k, Len(s)))
    ELSE SubSeq(s, 1, Max2(Len(s) + k, 0))

RECURSIVE SumSeq(_)
SumSeq(s) == IF s = <<>> THEN 0 ELSE Head(s) + SumSeq(Tail(s))

SeqMin(s) == CHOOSE v \in Range(s) : \A w \in Range(s) : v <= w
SeqMax(s) == CHOOSE v \in Range(s) : \A w \in Range(s) : v >= w

(***************************************************************************)
(* np.log1p, in thousandths, on the amounts that occur.                    *)
(***************************************************************************)
Log1p(a) ==
    CASE a = 0 -> 0
      [] a = 1 -> 693
      [] a = 2 -> 1099
      [] a = 3 -> 1386
      [] a = 4 -> 1609
      [] a = 5 -> 1792
      [] OTHER -> 1946

\* mutant: the scaled frame comes back in reverse row order
AddScaledColumn_Reversed(df) ==
    [i \in DOMAIN df |->
        [Purchase_Amount_Scaled |-> Log1p(df[Len(df) + 1 - i].Purchase_Amount)]
            @@ df[Len(df) + 1 - i]]

\* data['Purchase_Amount_Scaled'] = np.log1p(data['Purchase_Amount']):
\* the column is added to every row, or overwritten when already there
AddScaledColumn(df) ==
    [i \in DOMAIN df |->
        [Purchase_Amount_Scaled |-> Log1p(df[i].Purchase_Amount)] @@ df[i]]

\* the columns lines 19 and 23 index the DataFrame with
RequiredColumns == {"Customer_ID", "Product_ID", "Purchase_Amount"}
HasColumns(df, cols) == \A i \in DOMAIN df : cols \subseteq DOMAIN df[i]

\* Reader(rating_scale=(min, max)) over the scaled column
RatingScaleOf(df) ==
    <<SeqMin(Column(df, "Purchase_Amount_Scaled")),
      SeqMax(Column(df, "Purchase_Amount_Scaled"))>>

\* Dataset.load_from_df(data[['Customer_ID', 'Product_ID',
\* 'Purchase_Amount_Scaled']], reader): one raw rating per row, in row order
\* mutant: one triple per (Customer_ID, Product_ID) pair, the first one
LoadFromDf_Deduplicated(df) ==
    [raw_ratings |->
        SelectSeq([i \in DOMAIN df |->
                      <<df[i].Customer_ID, df[i].Product_ID, df[i].Purchase_Amount_Scaled, i>>],
                  LAMBDA t : \A k \in 1..(t[4] - 1) :
                      <<df[k].Customer_ID, df[k].Product_ID>> # <<t[1], t[2]>>),
     rating_scale |-> RatingScaleOf(df)]

LoadFromDf(df) ==
    [raw_ratings |->
        [i \in DOMAIN df |->
            <<df[i].Customer_ID, df[i].Product_ID, df[i].Purchase_Amount_Scaled>>],
     rating_scale |-> RatingScaleOf(df)]

(***************************************************************************)
(* The fitted SVD++ model, as far as the program observes it: the rating   *)
(* scale of the trainset it was fitted on, the hyperparameters it was      *)
(* built with, and the raw estimate for each (customer, product).          *)
(***************************************************************************)
\* param_grid; lr_all and reg_all in thousandths
param_grid ==
    [n_factors |-> <<20, 50, 100>>,
     n_epochs  |-> <<10, 20, 30>>,
     lr_all    |-> <<2, 5, 10>>,
     reg_all   |-> <<20, 50, 100>>]

GridPoint(i) ==
    [n_factors |-> param_grid.n_factors[i], n_epochs |-> param_grid.n_epochs[i],
     lr_all |-> param_grid.lr_all[i], reg_all |-> param_grid.reg_all[i]]

\* the combinations the grid search is let to return
BestParamsChoices == {GridPoint(i) : i \in 1..3}

\* raw estimates: an item part per product and a customer part per customer
ItemBiases == {500, 1200}
UserBiasChoices == {[c \in Customers |-> 300 * (c - 1)]}
ScaledValues == {Log1p(Catalog[p].Price) : p \in Products}
RatingScales == {sc \in ScaledValues \X ScaledValues : sc[1] <= sc[2]}

\* the models a request may be served with
Models ==
    [rating_scale : RatingScales, params : {GridPoint(1)},
     bi : [Products -> ItemBiases], bu : UserBiasChoices]

\* Prediction.est of model.predict(uid, iid): the raw estimate (item part
\* alone for a customer the model does not know) clipped to the rating scale
\* of the model's trainset
PredictUnclipped(m, uid, iid) ==
    m.bi[iid] + (IF uid \in DOMAIN m.bu THEN m.bu[uid] ELSE 0)
Predict(m, uid, iid) ==
    Max2(m.rating_scale[1], Min2(m.rating_scale[2], PredictUnclipped(m, uid, iid)))

(***************************************************************************)
(* get_recommendations_for_user                                            *)
(***************************************************************************)
\* sorted(predictions, key=lambda x: x[1], reverse=True): stable, so equal
\* ratings keep their order
RECURSIVE InsertDesc(_, _)

\* mutant: an equal rating is placed before the ones already sorted
InsertDesc_Unstable(sorted, e) ==
    IF sorted = <<>> THEN <<e>>
    ELSE IF Head(sorted)[2] > e[2]
         THEN <<Head(sorted)>> \o InsertDesc(Tail(sorted), e)
    ELSE <<e>> \o sorted

InsertDesc(sorted, e) ==
    IF sorted = <<>> THEN <<e>>
    ELSE IF Head(sorted)[2] >= e[2] THEN <<Head(sorted)>> \o InsertDesc(Tail(sorted), e)
    ELSE <<e>> \o sorted

\* mutant: the predictions are left in enumeration order
SortedDesc_Unsorted(s) == s

RECURSIVE SortedDesc(_)
SortedDesc(s) ==
    IF s = <<>> THEN <<>>
    ELSE InsertDesc(SortedDesc(SubSeq(s, 1, Len(s) - 1)), s[Len(s)])

\* mutant: all_items keeps one entry per row
AllItems_PerRow(df) == Column(df, "Product_ID")

\* mutant: the last distinct product is lost from all_items
AllItems_DropLast(df) ==
    SubSeq(Unique(Column(df, "Product_ID")), 1, Len(Unique(Column(df, "Product_ID"))) - 1)

\* mutant: the customer filter is inverted
UserRows_Inverted(df, uid) == SelectSeq(df, LAMBDA r : r.Customer_ID # uid)

\* mutant: purchased products are not excluded
ItemsToPredict_NoExclusion(df, uid) == Unique(Column(df, "Product_ID"))

\* all_items, user_items, items_to_predict
AllItems(df) == Unique(Column(df, "Product_ID"))
UserRows(df, uid) == SelectSeq(df, LAMBDA r : r.Customer_ID = uid)
UserItems(df, uid) == Unique(Column(UserRows(df, uid), "Product_ID"))
ItemsToPredict(df, uid) ==
    LET user_items == Range(UserItems(df, uid))
    IN  SelectSeq(AllItems(df), LAMBDA item : item \notin user_items)

Predictions(df, m, uid) ==
    LET items_to_predict == ItemsToPredict(df, uid)
    IN  [i \in DOMAIN items_to_predict |->
            <<items_to_predict[i], Predict(m, uid, items_to_predict[i])>>]

TopPredictions(df, m, uid, k) == SliceTo(SortedDesc(Predictions(df, m, uid)), k)

\* product_details_dict: drop_duplicates keeps each distinct (Product_ID,
\* Category, Subcategory) once, and building the dict from them lets a later
\* entry for the same Product_ID replace an earlier one
ProductDetails(df) ==
    Unique([i \in DOMAIN df |->
        [Product_ID |-> df[i].Product_ID, Category |-> df[i].Category,
         Subcategory |-> df[i].Subcategory]])

ProductDetailsDict(df) ==
    LET product_details == ProductDetails(df)
    IN  [p \in Range(Column(df, "Product_ID")) |->
        LET hits == SelectSeq(product_details, LAMBDA d : d.Product_ID = p)
        IN  [Category |-> hits[Len(hits)].Category,
             Subcategory |-> hits[Len(hits)].Subcategory]]

\* the f-string pieces of a Reason; a Reason is the sequence of its pieces.
\* {x:.2f} rounds thousandths to hundredths; {x:,.2f} prints a whole amount
\* with its two decimals
Text(str) == [text |-> str]
Format2f(thousandths) == [fmt |-> ".2f", hundredths |-> (thousandths + 5) \div 10]
FormatMoney(amount) == [fmt |-> ",.2f", hundredths |-> 100 * amount]

CategoryClause(cat) ==
    <<Text("the customer has shown a strong interest in "), Text(cat),
      Text(" items previously")>>
SubcategoryClause(sub) ==
    <<Text("specifically within the "), Text(sub), Text(" subcategory")>>
PopularityClause(revenue) ==
    <<Text("this product is highly popular among other customers with total revenue of $"),
      FormatMoney(revenue)>>
RatingClause(est) ==
    <<Text("the predicted rating for this product is "), Format2f(est),
      Text(", indicating high satisfaction potential")>>

\* '; '.join(reason_parts)
RECURSIVE JoinParts(_)
JoinParts(parts) ==
    IF parts = <<>> THEN <<>>
    ELSE IF Len(parts) = 1 THEN parts[1]
    ELSE parts[1] \o <<Text("; ")>> \o JoinParts(Tail(parts))

\* mutant: the subcategory clause is appended before the category clause
ReasonParts_SubcategoryFirst(df, uid, rec) ==
    LET category_products == SelectSeq(df, LAMBDA r : r.Category = rec.Category)
        subcategory_products ==
            SelectSeq(category_products, LAMBDA r : r.Subcategory = rec.Subcategory)
        user_past_purchases == SelectSeq(df, LAMBDA r : r.Customer_ID = uid)
        user_category_purchases ==
            SelectSeq(user_past_purchases, LAMBDA r : r.Category = rec.Category)
        user_subcategory_purchases ==
            SelectSeq(user_category_purchases, LAMBDA r : r.Subcategory = rec.Subcategory)
        popularity_score == SumSeq(Column(subcategory_products, "Purchase_Amount"))
    IN  (IF user_subcategory_purchases # <<>>
            THEN <<SubcategoryClause(rec.Subcategory)>> ELSE <<>>)
        \o (IF user_category_purchases # <<>> THEN <<CategoryClause(rec.Category)>> ELSE <<>>)
        \o <<PopularityClause(popularity_score)>>
        \o <<RatingClause(rec.Estimated_Rating)>>

\* mutant: the category test looks at every customer's purchases
ReasonParts_AnyCustomer(df, uid, rec) ==
    LET category_products == SelectSeq(df, LAMBDA r : r.Category = rec.Category)
        subcategory_products ==
            SelectSeq(category_products, LAMBDA r : r.Subcategory = rec.Subcategory)
        user_past_purchases == SelectSeq(df, LAMBDA r : r.Customer_ID = uid)
        user_category_purchases ==
            SelectSeq(user_past_purchases, LAMBDA r : r.Category = rec.Category)
        user_subcategory_purchases ==
            SelectSeq(user_category_purchases, LAMBDA r : r.Subcategory = rec.Subcategory)
        popularity_score == SumSeq(Column(subcategory_products, "Purchase_Amount"))
    IN  (IF category_products # <<>> THEN <<CategoryClause(rec.Category)>> ELSE <<>>)
        \o (IF user_subcategory_purchases # <<>>
            THEN <<SubcategoryClause(rec.Subcategory)>> ELSE <<>>)
        \o <<PopularityClause(popularity_score)>>
        \o <<RatingClause(rec.Estimated_Rating)>>

\* mutant: the subcategory test ignores the category
ReasonParts_SubcategoryAlone(df, uid, rec) ==
    LET category_products == SelectSeq(df, LAMBDA r : r.Category = rec.Category)
        subcategory_products ==
            SelectSeq(category_products, LAMBDA r : r.Subcategory = rec.Subcategory)
        user_past_purchases == SelectSeq(df, LAMBDA r : r.Customer_ID = uid)
        user_category_purchases ==
            SelectSeq(user_past_purchases, LAMBDA r : r.Category = rec.Category)
        user_subcategory_purchases ==
            SelectSeq(user_past_purchases, LAMBDA r : r.Subcategory = rec.Subcategory)
        popularity_score == SumSeq(Column(subcategory_products, "Purchase_Amount"))
    IN  (IF user_category_purchases # <<>> THEN <<CategoryClause(rec.Category)>> ELSE <<>>)
        \o (IF user_subcategory_purchases # <<>>
            THEN <<SubcategoryClause(rec.Subcategory)>> ELSE <<>>)
        \o <<PopularityClause(popularity_score)>>
        \o <<RatingClause(rec.Estimated_Rating)>>

\* mutant: the revenue is summed over the whole category
ReasonParts_CategoryRevenue(df, uid, rec) ==
    LET category_products == SelectSeq(df, LAMBDA r : r.Category = rec.Category)
        subcategory_products ==
            SelectSeq(category_products, LAMBDA r : r.Subcategory = rec.Subcategory)
        user_past_purchases == SelectSeq(df, LAMBDA r : r.Customer_ID = uid)
        user_category_purchases ==
            SelectSeq(user_past_purchases, LAMBDA r : r.Category = rec.Category)
        user_subcategory_purchases ==
            SelectSeq(user_category_purchases, LAMBDA r : r.Subcategory = rec.Subcategory)
        popularity_score == SumSeq(Column(category_products, "Purchase_Amount"))
    IN  (IF user_category_purchases # <<>> THEN <<CategoryClause(rec.Category)>> ELSE <<>>)
        \o (IF user_subcategory_purchases # <<>>
            THEN <<SubcategoryClause(rec.Subcategory)>> ELSE <<>>)
        \o <<PopularityClause(popularity_score)>>
        \o <<RatingClause(rec.Estimated_Rating)>>

\* mutant: the rating clause is appended before the popularity clause
ReasonParts_RatingFirst(df, uid, rec) ==
    LET category_products == SelectSeq(df, LAMBDA r : r.Category = rec.Category)
        subcategory_products ==
            SelectSeq(category_products, LAMBDA r : r.Subcategory = rec.Subcategory)
        user_past_purchases == SelectSeq(df, LAMBDA r : r.Customer_ID = uid)
        user_category_purchases ==
            SelectSeq(user_past_purchases, LAMBDA r : r.Category = rec.Category)
        user_subcategory_purchases ==
            SelectSeq(user_category_purchases, LAMBDA r : r.Subcategory = rec.Subcategory)
        popularity_score == SumSeq(Column(subcategory_products, "Purchase_Amount"))
    IN  (IF user_category_purchases # <<>> THEN <<CategoryClause(rec.Category)>> ELSE <<>>)
        \o (IF user_subcategory_purchases # <<>>
            THEN <<SubcategoryClause(rec.Subcategory)>> ELSE <<>>)
        \o <<RatingClause(rec.Estimated_Rating)>>
        \o <<PopularityClause(popularity_score)>>

ReasonParts(df, uid, rec) ==
    LET category_products == SelectSeq(df, LAMBDA r : r.Category = rec.Category)
        subcategory_products ==
            SelectSeq(category_products, LAMBDA r : r.Subcategory = rec.Subcategory)
        user_past_purchases == SelectSeq(df, LAMBDA r : r.Customer_ID = uid)
        user_category_purchases ==
            SelectSeq(user_past_purchases, LAMBDA r : r.Category = rec.Category)
        user_subcategory_purchases ==
            SelectSeq(user_category_purchases, LAMBDA r : r.Subcategory = rec.Subcategory)
        popularity_score == SumSeq(Column(subcategory_products, "Purchase_Amount"))
    IN  (IF user_category_purchases # <<>> THEN <<CategoryClause(rec.Category)>> ELSE <<>>)
        \o (IF user_subcategory_purchases # <<>>
            THEN <<SubcategoryClause(rec.Subcategory)>> ELSE <<>>)
        \o <<PopularityClause(popularity_score)>>
        \o <<RatingClause(rec.Estimated_Rating)>>

Reason(df, uid, rec) ==
    <<Text("Recommended because ")>> \o JoinParts(ReasonParts(df, uid, rec)) \o <<Text(".")>>

get_recommendations_for_user(uid, k, df, m) ==
    LET predictions == TopPredictions(df, m, uid, k)
        details == ProductDetailsDict(df)
        detailed(i) ==
            [Product_ID |-> predictions[i][1],
             Estimated_Rating |-> predictions[i][2],
             Category |-> details[predictions[i][1]].Category,
             Subcategory |-> details[predictions[i][1]].Subcategory]
    IN  [i \in DOMAIN predictions |->
            [Reason |-> Reason(df, uid, detailed(i))] @@ detailed(i)]

(***************************************************************************)
(* Files and Python values.                                                *)
(***************************************************************************)
None == [kind |-> "None"]
Absent == [kind |-> "absent"]
\* opened with 'wb' and not yet dumped into
Partial == [kind |-> "partial"]
Pickled(obj) == [kind |-> "pickle", obj |-> obj]
\* content pickle.load cannot deserialize
Corrupt == [kind |-> "corrupt"]

\* os.path.exists
Exists(file) == file.kind # "absent"

\* cv=3 of GridSearchCV: the folds need at least that many ratings
CvFolds == 3
\* n= of the two pages' get_recommendations_for_user calls
TopNRecommender == 5
TopNReport == 3

\* the contents DATA_PATH may have when a script run reads it
DataFiles ==
    {<<PurchaseRow(1, 1), PurchaseRow(1, 2), PurchaseRow(2, 2)>>,
     <<PurchaseRow(1, 2), PurchaseRow(2, 3), PurchaseRow(2, 2)>>,
     <<PurchaseRow(2, 1), PurchaseRow(1, 3), PurchaseRow(2, 1), PurchaseRow(2, 2)>>,
     <<PurchaseRow(1, 3), PurchaseRow(2, 1)>>}

\* what model.fit(trainset) may leave in a model built with `params` from
\* the ratings of df
FitItemBiasChoices ==
    {[p \in Products |-> IF p = 1 THEN 500 ELSE 1200],
     [p \in Products |-> IF p = 3 THEN 500 ELSE 1200]}
FitUserBiasChoices == UserBiasChoices

FitResults(df, params) ==
    {[rating_scale |-> RatingScaleOf(df), params |-> params, bi |-> b, bu |-> u] :
        b \in FitItemBiasChoices, u \in FitUserBiasChoices}

\* the models an earlier training may have left on disk
StoredModels ==
    UNION {FitResults(AddScaledColumn(c), bp) :
               c \in {f \in DataFiles : Len(f) >= CvFolds}, bp \in BestParamsChoices}

TrainPcs == {"grid_search", "fit", "open_model", "dump_model", "open_params", "dump_params"}
LoadPcs == {"load_model", "load_params"}

Saturate(k) == Min2(k + 1, 2)

(***************************************************************************)
(* The script run of app.py.                                               *)
(***************************************************************************)
generator == <<products_df, purchases>>
aside == <<data_surprise, race, products_df, purchases>>
history == <<seen, coldStart, calls, returned, prevModel, wrotePrev, wroteCur>>
request == <<recs, user_id, n>>
disk == <<modelFile, paramsFile>>

\* data = pd.read_csv(DATA_PATH), then the tabs are rendered in order
LoadData(file) ==
    /\ pc = "start"
    /\ data' = file
    /\ page' = "recommender"
    /\ pc' = "scale"
    /\ model' = None /\ best_params' = None /\ fitted' = FALSE
    /\ recs' = <<>> /\ user_id' = 0 /\ n' = 0
    /\ data_surprise' = None
    /\ UNCHANGED <<race, generator, disk, history>>

\* train_and_save_model, lines 19-23: the scaled column and the Surprise dataset
ScaleAmounts ==
    /\ pc = "scale"
    /\ HasColumns(data, RequiredColumns)
    /\ data' = AddScaledColumn(data)
    /\ data_surprise' = LoadFromDf(data')
    /\ pc' = "check"
    /\ model' = None /\ best_params' = None /\ fitted' = FALSE
    /\ seen' = <<Exists(modelFile), Exists(paramsFile)>>
    /\ calls' = Saturate(calls)
    /\ wroteCur' = FALSE
    /\ UNCHANGED <<race, generator, disk, page, request, coldStart, returned, prevModel, wrotePrev>>

\* mutant: the KeyError is swallowed and the call goes on
ScaleAmountsRaises_Swallowed ==
    /\ pc = "scale"
    /\ ~HasColumns(data, RequiredColumns)
    /\ data' = (IF HasColumns(data, {"Purchase_Amount"}) THEN AddScaledColumn(data) ELSE data)
    /\ pc' = "check"
    /\ model' = None /\ best_params' = None /\ fitted' = FALSE
    /\ seen' = <<Exists(modelFile), Exists(paramsFile)>>
    /\ calls' = Saturate(calls)
    /\ wroteCur' = FALSE
    /\ UNCHANGED <<aside, disk, page, request, coldStart, returned, prevModel, wrotePrev>>

\* lines 19 and 23 raising KeyError: line 19 when Purchase_Amount is missing,
\* else line 23 (after the scaled column was added) when Customer_ID or
\* Product_ID is; the exception ends the script run
ScaleAmountsRaises ==
    /\ pc = "scale"
    /\ ~HasColumns(data, RequiredColumns)
    /\ data' = (IF HasColumns(data, {"Purchase_Amount"}) THEN AddScaledColumn(data) ELSE data)
    /\ pc' = "start"
    /\ page' = "none"
    /\ model' = None /\ best_params' = None /\ fitted' = FALSE
    /\ calls' = Saturate(calls)
    /\ wroteCur' = FALSE
    /\ UNCHANGED <<aside, disk, request, seen, coldStart, returned, prevModel, wrotePrev>>

\* mutant: the cached model is also checked against the corpus
BothArtifactsExist_Validated ==
    /\ modelFile.kind = "pickle" /\ Exists(paramsFile)
    /\ modelFile.obj.rating_scale = RatingScaleOf(data)

\* mutant: one artifact is enough to skip training
BothArtifactsExist_Either == Exists(modelFile) \/ Exists(paramsFile)

\* line 26
BothArtifactsExist == Exists(modelFile) /\ Exists(paramsFile)

CheckArtifacts ==
    /\ pc = "check"
    /\ pc' = IF BothArtifactsExist THEN "load_model" ELSE "grid_search"
    /\ UNCHANGED <<aside, data, disk, page, model, best_params, fitted, request, history>>

\* mutant: the loaded model is given the rating scale of the current corpus
LoadModel_Rescaled ==
    /\ pc = "load_model"
    /\ modelFile.kind = "pickle"
    /\ model' = [modelFile.obj EXCEPT !.rating_scale = RatingScaleOf(data)]
    /\ pc' = "load_params"
    /\ UNCHANGED <<aside, data, disk, page, best_params, fitted, request, history>>

\* lines 28-29
LoadModel ==
    /\ pc = "load_model"
    /\ modelFile.kind = "pickle"
    /\ model' = modelFile.obj
    /\ pc' = "load_params"
    /\ UNCHANGED <<aside, data, disk, page, best_params, fitted, request, history>>

\* lines 30-31
LoadParams ==
    /\ pc = "load_params"
    /\ paramsFile.kind = "pickle"
    /\ best_params' = paramsFile.obj
    /\ pc' = "return"
    /\ UNCHANGED <<aside, data, disk, page, model, fitted, request, history>>

\* lines 42-46
GridSearch ==
    /\ pc = "grid_search"
    /\ Len(data) >= CvFolds
    /\ best_params' \in BestParamsChoices
    /\ pc' = "fit"
    /\ UNCHANGED <<aside, data, disk, page, model, fitted, request, history>>

\* line 43 raising: fewer ratings than folds; the exception ends the script run
GridSearchRaises ==
    /\ pc = "grid_search"
    /\ Len(data) < CvFolds
    /\ pc' = "start"
    /\ page' = "none"
    /\ UNCHANGED <<aside, data, disk, model, best_params, fitted, request, history>>

\* lines 47-49
Fit ==
    /\ pc = "fit"
    /\ model' \in FitResults(data, best_params)
    /\ fitted' = TRUE
    /\ pc' = "open_model"
    /\ UNCHANGED <<aside, data, disk, page, best_params, request, history>>

\* line 52
OpenModelFile ==
    /\ pc = "open_model"
    /\ modelFile' = Partial
    /\ wroteCur' = TRUE /\ wrotePrev' = TRUE
    /\ pc' = "dump_model"
    /\ UNCHANGED <<aside, data, paramsFile, page, model, best_params, fitted, request,
                   seen, coldStart, calls, returned, prevModel>>

\* mutant: the model is not dumped before best_params.pkl is opened
DumpModel_NotWritten ==
    /\ pc = "dump_model"
    /\ pc' = "open_params"
    /\ UNCHANGED <<aside, data, disk, page, model, best_params, fitted, request, history>>

\* line 53
DumpModel ==
    /\ pc = "dump_model"
    /\ modelFile' = Pickled(model)
    /\ pc' = "open_params"
    /\ UNCHANGED <<aside, data, paramsFile, page, model, best_params, fitted, request, history>>

\* line 54
OpenParamsFile ==
    /\ pc = "open_params"
    /\ paramsFile' = Partial
    /\ wroteCur' = TRUE /\ wrotePrev' = TRUE
    /\ pc' = "dump_params"
    /\ UNCHANGED <<aside, data, modelFile, page, model, best_params, fitted, request,
                   seen, coldStart, calls, returned, prevModel>>

\* mutant: the hyperparameters are never dumped and the file is removed
DumpParams_NotWritten ==
    /\ pc = "dump_params"
    /\ paramsFile' = Absent
    /\ pc' = "return"
    /\ UNCHANGED <<aside, data, modelFile, page, model, best_params, fitted, request, history>>

\* line 55
DumpParams ==
    /\ pc = "dump_params"
    /\ paramsFile' = Pickled(best_params)
    /\ pc' = "return"
    /\ UNCHANGED <<aside, data, modelFile, page, model, best_params, fitted, request, history>>

\* line 57: the page receives (model, data)
Return ==
    /\ pc = "return"
    /\ pc' = "recommend"
    /\ returned' = Saturate(returned)
    /\ prevModel' = model
    /\ wrotePrev' = wroteCur
    /\ UNCHANGED <<aside, data, disk, page, model, best_params, fitted, request,
                   seen, coldStart, calls, wroteCur>>

\* st.number_input(min_value=1, max_value=int(data['Customer_ID'].max()))
MaxCustomerId(df) == SeqMax(Column(df, "Customer_ID"))

\* the page's get_recommendations_for_user call (n=5 on the recommender
\* page, n=3 in the report), after which the next tab is rendered
Recommend(uid) ==
    /\ pc = "recommend"
    /\ uid \in 1..MaxCustomerId(data)
    /\ user_id' = uid
    /\ n' = (IF page = "recommender" THEN TopNRecommender ELSE TopNReport)
    /\ recs' = get_recommendations_for_user(uid, n', data, model)
    /\ IF page = "recommender"
       THEN page' = "report" /\ pc' = "scale"
       ELSE page' = "none" /\ pc' = "start"
    /\ UNCHANGED <<aside, data, disk, model, best_params, fitted, history>>

\* before a script run: the artifacts are as earlier trainings and the
\* operator's deletions left them, each absent or completely written
Init ==
    /\ data = <<>>
    /\ data_surprise = None /\ race = <<>>
    /\ products_df = <<>> /\ purchases = <<>>
    /\ modelFile \in {Absent} \cup {Pickled(m) : m \in StoredModels}
    /\ paramsFile \in {Absent} \cup {Pickled(bp) : bp \in BestParamsChoices}
    /\ pc = "start" /\ page = "none"
    /\ model = None /\ best_params = None /\ fitted = FALSE
    /\ recs = <<>> /\ user_id = 0 /\ n = 0
    /\ seen = <<FALSE, FALSE>>
    /\ coldStart = (~Exists(modelFile) /\ ~Exists(paramsFile))
    /\ calls = 0 /\ returned = 0
    /\ prevModel = None
    /\ wrotePrev = FALSE /\ wroteCur = FALSE

Next ==
    \/ \E file \in DataFiles : LoadData(file)
    \/ ScaleAmounts
    \/ CheckArtifacts
    \/ LoadModel
    \/ LoadParams
    \/ GridSearch
    \/ GridSearchRaises
    \/ Fit
    \/ OpenModelFile
    \/ DumpModel
    \/ OpenParamsFile
    \/ DumpParams
    \/ Return
    \/ \E uid \in Users : Recommend(uid)

Spec == Init /\ [][Next]_vars

(***************************************************************************)
(* train_and_save_model on its own: one call, on a corpus that may lack    *)
(* columns, over any artifacts earlier trainings left.                     *)
(***************************************************************************)
DropColumns(df, cols) ==
    [i \in DOMAIN df |-> [c \in (DOMAIN df[i]) \ cols |-> df[i][c]]]

TrainInputs ==
    DataFiles \cup {DropColumns(df, cols) :
                        df \in DataFiles, cols \in (SUBSET RequiredColumns) \ {{}}}

InitTrain ==
    /\ data \in TrainInputs
    /\ data_surprise = None /\ race = <<>>
    /\ products_df = <<>> /\ purchases = <<>>
    /\ modelFile \in {Absent} \cup {Pickled(m) : m \in StoredModels}
    /\ paramsFile \in {Absent} \cup {Pickled(bp) : bp \in BestParamsChoices}
    /\ pc = "scale" /\ page = "none"
    /\ model = None /\ best_params = None /\ fitted = FALSE
    /\ recs = <<>> /\ user_id = 0 /\ n = 0
    /\ seen = <<FALSE, FALSE>>
    /\ coldStart = (~Exists(modelFile) /\ ~Exists(paramsFile))
    /\ calls = 0 /\ returned = 0
    /\ prevModel = None
    /\ wrotePrev = FALSE /\ wroteCur = FALSE

NextTrain ==
    \/ ScaleAmounts
    \/ ScaleAmountsRaises
    \/ CheckArtifacts
    \/ LoadModel
    \/ LoadParams
    \/ GridSearch
    \/ GridSearchRaises
    \/ Fit
    \/ OpenModelFile
    \/ DumpModel
    \/ OpenParamsFile
    \/ DumpParams
    \/ Return

SpecTrain == InitTrain /\ [][NextTrain]_vars

(***************************************************************************)
(* Script runs over artifacts that may not deserialize.                    *)
(***************************************************************************)
\* mutant: a failed pickle.load is caught and the call trains instead
LoadRaises_FallsBack ==
    /\ pc \in LoadPcs
    /\ (IF pc = "load_model" THEN modelFile ELSE paramsFile).kind # "pickle"
    /\ pc' = "grid_search"
    /\ model' = None /\ best_params' = None
    /\ UNCHANGED <<aside, data, disk, page, fitted, request, history>>

\* lines 29 and 31 raising: pickle.load on a file that is not a complete
\* pickle; nothing catches it, the exception ends the script run
LoadRaises ==
    /\ pc \in LoadPcs
    /\ (IF pc = "load_model" THEN modelFile ELSE paramsFile).kind # "pickle"
    /\ pc' = "start"
    /\ page' = "none"
    /\ model' = None /\ best_params' = None
    /\ UNCHANGED <<aside, data, disk, fitted, request, history>>

InitCorrupt ==
    /\ data = <<>>
    /\ data_surprise = None /\ race = <<>>
    /\ products_df = <<>> /\ purchases = <<>>
    /\ modelFile \in {Absent, Corrupt} \cup {Pickled(m) : m \in StoredModels}
    /\ paramsFile \in {Absent, Corrupt} \cup {Pickled(bp) : bp \in BestParamsChoices}
    /\ pc = "start" /\ page = "none"
    /\ model = None /\ best_params = None /\ fitted = FALSE
    /\ recs = <<>> /\ user_id = 0 /\ n = 0
    /\ seen = <<FALSE, FALSE>>
    /\ coldStart = (~Exists(modelFile) /\ ~Exists(paramsFile))
    /\ calls = 0 /\ returned = 0
    /\ prevModel = None
    /\ wrotePrev = FALSE /\ wroteCur = FALSE

NextCorrupt ==
    \/ Next
    \/ LoadRaises

SpecCorrupt == InitCorrupt /\ [][NextCorrupt]_vars

(***************************************************************************)
(* Script runs from no artifacts in which a call may be cut short at any   *)
(* step (Ctrl-C, or the rerun Streamlit starts on a widget change): the    *)
(* with blocks close the file being written with what it holds so far.     *)
(***************************************************************************)
InterruptiblePcs == {"scale", "check", "return"} \cup LoadPcs \cup TrainPcs

Interrupt ==
    /\ pc \in InterruptiblePcs
    /\ pc' = "start"
    /\ page' = "none"
    /\ UNCHANGED <<aside, data, disk, model, best_params, fitted, request, history>>

InitInterrupt ==
    /\ Init
    /\ modelFile = Absent /\ paramsFile = Absent

NextInterrupt ==
    \/ Next
    \/ LoadRaises
    \/ Interrupt

SpecInterrupt == InitInterrupt /\ [][NextInterrupt]_vars

(***************************************************************************)
(* Two train_and_save_model calls at once (two sessions of the dashboard)  *)
(* on the same corpus, starting with no artifacts.  Each call has its own  *)
(* position and locals in race.inv; the two files are shared.  Lines 19-23 *)
(* touch only the call's own frame and are taken as done.  The two         *)
(* os.path.exists tests of line 26 are separate system calls; a dump and   *)
(* the close that follows it land as one write.                            *)
(***************************************************************************)
Invocations == {1, 2}

RaceLocals == [pc |-> "check_model", model |-> None, best_params |-> None, fitted |-> FALSE]

RaceAt(p, label) == race.inv[p].pc = label
Goto(p, label) == [race EXCEPT !.inv[p].pc = label]

RaceFrame == UNCHANGED <<data, data_surprise, generator, pc, page, model, best_params, fitted,
                         request, history>>

InitRace ==
    /\ data \in {AddScaledColumn(df) : df \in {d \in DataFiles : Len(d) >= CvFolds}}
    /\ data_surprise = LoadFromDf(data)
    /\ race = [inv |-> [p \in Invocations |-> RaceLocals], modelBy |-> 0, paramsBy |-> 0]
    /\ products_df = <<>> /\ purchases = <<>>
    /\ modelFile = Absent /\ paramsFile = Absent
    /\ pc = "race" /\ page = "none"
    /\ model = None /\ best_params = None /\ fitted = FALSE
    /\ recs = <<>> /\ user_id = 0 /\ n = 0
    /\ seen = <<FALSE, FALSE>>
    /\ coldStart = TRUE
    /\ calls = 0 /\ returned = 0
    /\ prevModel = None
    /\ wrotePrev = FALSE /\ wroteCur = FALSE

\* mutant: a call waits at line 26 while another call trains or writes
RaceCheckModel_Locked(p) ==
    /\ RaceAt(p, "check_model")
    /\ \A q \in Invocations \ {p} : race.inv[q].pc \notin TrainPcs
    /\ race' = Goto(p, IF Exists(modelFile) THEN "check_params" ELSE "grid_search")
    /\ UNCHANGED disk /\ RaceFrame

\* line 26, left operand: os.path.exists('model.pkl')
RaceCheckModel(p) ==
    /\ RaceAt(p, "check_model")
    /\ race' = Goto(p, IF Exists(modelFile) THEN "check_params" ELSE "grid_search")
    /\ UNCHANGED disk /\ RaceFrame

\* line 26, right operand: os.path.exists('best_params.pkl')
RaceCheckParams(p) ==
    /\ RaceAt(p, "check_params")
    /\ race' = Goto(p, IF Exists(paramsFile) THEN "load_model" ELSE "grid_search")
    /\ UNCHANGED disk /\ RaceFrame

\* lines 28-29: pickle.load raises on a file that is not completely written
RaceLoadModel(p) ==
    /\ RaceAt(p, "load_model")
    /\ race' = IF modelFile.kind = "pickle"
               THEN [race EXCEPT !.inv[p].model = modelFile.obj,
                                 !.inv[p].pc = "load_params"]
               ELSE Goto(p, "raised")
    /\ UNCHANGED disk /\ RaceFrame

\* lines 30-31
RaceLoadParams(p) ==
    /\ RaceAt(p, "load_params")
    /\ race' = IF paramsFile.kind = "pickle"
               THEN [race EXCEPT !.inv[p].best_params = paramsFile.obj,
                                 !.inv[p].pc = "return"]
               ELSE Goto(p, "raised")
    /\ UNCHANGED disk /\ RaceFrame

\* lines 34-46
RaceGridSearch(p) ==
    /\ RaceAt(p, "grid_search")
    /\ Len(data) >= CvFolds
    /\ \E bp \in BestParamsChoices :
        race' = [race EXCEPT !.inv[p].best_params = bp, !.inv[p].pc = "fit"]
    /\ UNCHANGED disk /\ RaceFrame

\* lines 47-49
RaceFit(p) ==
    /\ RaceAt(p, "fit")
    /\ \E m \in FitResults(data, race.inv[p].best_params) :
        race' = [race EXCEPT !.inv[p].model = m, !.inv[p].fitted = TRUE,
                             !.inv[p].pc = "open_model"]
    /\ UNCHANGED disk /\ RaceFrame

\* line 52: open('model.pkl', 'wb') truncates whatever is there
RaceOpenModelFile(p) ==
    /\ RaceAt(p, "open_model")
    /\ modelFile' = Partial
    /\ race' = [race EXCEPT !.modelBy = p, !.inv[p].pc = "dump_model"]
    /\ UNCHANGED paramsFile /\ RaceFrame

\* line 53
RaceDumpModel(p) ==
    /\ RaceAt(p, "dump_model")
    /\ modelFile' = Pickled(race.inv[p].model)
    /\ race' = [race EXCEPT !.modelBy = p, !.inv[p].pc = "open_params"]
    /\ UNCHANGED paramsFile /\ RaceFrame

\* line 54
RaceOpenParamsFile(p) ==
    /\ RaceAt(p, "open_params")
    /\ paramsFile' = Partial
    /\ race' = [race EXCEPT !.paramsBy = p, !.inv[p].pc = "dump_params"]
    /\ UNCHANGED modelFile /\ RaceFrame

\* line 55
RaceDumpParams(p) ==
    /\ RaceAt(p, "dump_params")
    /\ paramsFile' = Pickled(race.inv[p].best_params)
    /\ race' = [race EXCEPT !.paramsBy = p, !.inv[p].pc = "return"]
    /\ UNCHANGED modelFile /\ RaceFrame

\* line 57
RaceReturn(p) ==
    /\ RaceAt(p, "return")
    /\ race' = Goto(p, "done")
    /\ UNCHANGED disk /\ RaceFrame

RaceStep(p) ==
    \/ RaceCheckModel(p)
    \/ RaceCheckParams(p)
    \/ RaceLoadModel(p)
    \/ RaceLoadParams(p)
    \/ RaceGridSearch(p)
    \/ RaceFit(p)
    \/ RaceOpenModelFile(p)
    \/ RaceDumpModel(p)
    \/ RaceOpenParamsFile(p)
    \/ RaceDumpParams(p)
    \/ RaceReturn(p)

NextRace == \E p \in Invocations : RaceStep(p)

SpecRace == InitRace /\ [][NextRace]_vars

(***************************************************************************)
(* get_recommendations_for_user on its own: any corpus, any model, any     *)
(* customer and count.                                                     *)
(***************************************************************************)
InitRec ==
    /\ data \in Corpora
    /\ data_surprise = None /\ race = <<>>
    /\ products_df = <<>> /\ purchases = <<>>
    /\ model \in Models
    /\ modelFile = Absent /\ paramsFile = Absent
    /\ pc = "recommend" /\ page = "none"
    /\ best_params = None /\ fitted = FALSE
    /\ recs = <<>> /\ user_id = 0 /\ n = 0
    /\ seen = <<FALSE, FALSE>>
    /\ coldStart = TRUE
    /\ calls = 0 /\ returned = 0
    /\ prevModel = None
    /\ wrotePrev = FALSE /\ wroteCur = FALSE

RecommendAny(uid, k) ==
    /\ pc = "recommend"
    /\ user_id' = uid
    /\ n' = k
    /\ recs' = get_recommendations_for_user(uid, k, data, model)
    /\ pc' = "recommended"
    /\ UNCHANGED <<aside, data, disk, page, model, best_params, fitted, history>>

NextRec == \E uid \in Users, k \in Counts : RecommendAny(uid, k)

SpecRec == InitRec /\ [][NextRec]_vars

(***************************************************************************)
(* get_recommendations_for_user over corpora whose rows carry any category *)
(* and subcategory, the same Product_ID included: the reason text and the  *)
(* metadata lookup.                                                        *)
(***************************************************************************)
Categories == {"Electronics", "Clothing"}
Subcategories == {"Accessories", "Laptops"}
MetaProducts == {1, 2}

MetaRow(i, c, p, cat, sub) ==
    [Customer_ID |-> c, Product_ID |-> p, Category |-> cat, Subcategory |-> sub,
     Price |-> Catalog[p].Price, Purchase_Amount |-> i]

MetaRowChoices == Customers \X MetaProducts \X Categories \X Subcategories

\* the corpus whose row i has the customer, product, category and
\* subcategory of choice[i]
MetaCorpus(choice) ==
    [i \in DOMAIN choice |->
        MetaRow(i, choice[i][1], choice[i][2], choice[i][3], choice[i][4])]

ReasonModel ==
    [rating_scale |-> <<0, Log1p(MaxRows)>>, params |-> GridPoint(1),
     bi |-> [p \in Products |-> IF p = 1 THEN 1200 ELSE 500],
     bu |-> CHOOSE b \in UserBiasChoices : TRUE]

InitReason ==
    /\ \E m \in 0..MaxRows : \E choice \in [1..m -> MetaRowChoices] :
        data = MetaCorpus(choice)
    /\ data_surprise = None /\ race = <<>>
    /\ products_df = <<>> /\ purchases = <<>>
    /\ model = ReasonModel
    /\ modelFile = Absent /\ paramsFile = Absent
    /\ pc = "recommend" /\ page = "none"
    /\ best_params = None /\ fitted = FALSE
    /\ recs = <<>> /\ user_id = 0 /\ n = 0
    /\ seen = <<FALSE, FALSE>>
    /\ coldStart = TRUE
    /\ calls = 0 /\ returned = 0
    /\ prevModel = None
    /\ wrotePrev = FALSE /\ wroteCur = FALSE

\* the recommender page's call, for any customer of the number input and
\* one id beyond
NextReason == \E uid \in Users : RecommendAny(uid, TopNRecommender)

SpecReason == InitReason /\ [][NextReason]_vars

(***************************************************************************)
(* get_recommendations_for_user called again and again with the same       *)
(* corpus and model, as the two pages of a script run do.                  *)
(***************************************************************************)
RepeatModels ==
    {m \in Models : /\ m.rating_scale = <<Log1p(1), Log1p(3)>>
                     /\ m.bi[1] = 500 /\ m.bi[2] = 1200 /\ m.bi[3] = 1200}

InitRepeat ==
    /\ data \in Corpora
    /\ data_surprise = None /\ race = <<>>
    /\ products_df = <<>> /\ purchases = <<>>
    /\ model \in RepeatModels
    /\ modelFile = Absent /\ paramsFile = Absent
    /\ pc = "recommend" /\ page = "none"
    /\ best_params = None /\ fitted = FALSE
    /\ recs = <<>> /\ user_id = 0 /\ n = 0
    /\ seen = <<FALSE, FALSE>>
    /\ coldStart = TRUE
    /\ calls = 0 /\ returned = 0
    /\ prevModel = None
    /\ wrotePrev = FALSE /\ wroteCur = FALSE

\* mutant: products already recommended to anyone are left out next time
RecommendAgain_Remembering(uid, k) ==
    /\ pc \in {"recommend", "recommended", "again"}
    /\ user_id' = uid
    /\ n' = k
    /\ recs' = SelectSeq(get_recommendations_for_user(uid, k, data, model),
                         LAMBDA r : r.Product_ID \notin
                                        {recs[i].Product_ID : i \in DOMAIN recs})
    /\ pc' = (IF pc = "recommend" THEN "recommended" ELSE "again")
    /\ UNCHANGED <<aside, data, disk, page, model, best_params, fitted, history>>

\* lines 72-122, on whatever the previous call left
RecommendAgain(uid, k) ==
    /\ pc \in {"recommend", "recommended", "again"}
    /\ user_id' = uid
    /\ n' = k
    /\ recs' = get_recommendations_for_user(uid, k, data, model)
    /\ pc' = (IF pc = "recommend" THEN "recommended" ELSE "again")
    /\ UNCHANGED <<aside, data, disk, page, model, best_params, fitted, history>>

NextRepeat == \E uid \in Customers, k \in Counts : RecommendAgain(uid, k)

SpecRepeat == InitRepeat /\ [][NextRepeat]_vars

(***************************************************************************)
(* dataGeneration.py: the product table, then the purchase records drawn   *)
(* from it, then the file the dashboard reads.  Two categories of two      *)
(* subcategories each stand for the five of five; one price per category   *)
(* stands for random.uniform, and the spending variability is left at 1.   *)
(***************************************************************************)
NUM_PRODUCTS == 5
NUM_PURCHASES == 2

CategoryOrder == <<"Electronics", "Clothing">>
PRODUCT_CATEGORIES ==
    [Electronics |-> <<"Laptops", "Accessories">>, Clothing |-> <<"Shirts", "Accessories">>]

PairsOf(category) ==
    [j \in DOMAIN PRODUCT_CATEGORIES[category] |->
        <<category, PRODUCT_CATEGORIES[category][j]>>]

\* the (category, subcategory) pairs in the order the nested loops of lines
\* 39-40 visit them
RECURSIVE ListedFrom(_)
ListedFrom(i) ==
    IF i > Len(CategoryOrder) THEN <<>>
    ELSE PairsOf(CategoryOrder[i]) \o ListedFrom(i + 1)
ListedPairs == ListedFrom(1)

BasePrice(category) == IF category = "Electronics" THEN 3 ELSE 1
Quantities == {1, 2}

NewProduct(product_id, category, subcategory) ==
    [Product_ID |-> product_id, Category |-> category, Subcategory |-> subcategory,
     Base_Price |-> BasePrice(category)]

\* mutant: the category is looked up among the listed pairs by product id
NewPurchase_ListedCategory(customer, product, quantity) ==
    [Customer_ID |-> customer, Product_ID |-> product.Product_ID,
     Category |-> ListedPairs[((product.Product_ID - 1) % Len(ListedPairs)) + 1][1],
     Subcategory |-> product.Subcategory,
     Purchase_Amount |-> product.Base_Price * quantity,
     Purchase_Quantity |-> quantity]

\* lines 148-157
NewPurchase(customer, product, quantity) ==
    [Customer_ID |-> customer, Product_ID |-> product.Product_ID,
     Category |-> product.Category, Subcategory |-> product.Subcategory,
     Purchase_Amount |-> product.Base_Price * quantity,
     Purchase_Quantity |-> quantity]

\* lines 172-177: the running count and total per customer, the customer's
\* mean as (total, count), then drop_duplicates
FinalData(rows) ==
    LET mine(i) == SelectSeq(SubSeq(rows, 1, i),
                             LAMBDA r : r.Customer_ID = rows[i].Customer_ID)
        all(i) == SelectSeq(rows, LAMBDA r : r.Customer_ID = rows[i].Customer_ID)
    IN  Unique([i \in DOMAIN rows |->
            [Customer_Purchase_Count |-> Len(mine(i)),
             Customer_Total_Spent |-> SumSeq(Column(mine(i), "Purchase_Amount")),
             Customer_Average_Order |->
                 <<SumSeq(Column(all(i), "Purchase_Amount")), Len(all(i))>>]
            @@ rows[i]])

GenFrame == UNCHANGED <<data_surprise, race, disk, page, model, best_params, fitted,
                        request, history>>

\* lines 39-56
GenListedProduct ==
    /\ pc = "gen_products"
    /\ Len(products_df) < Len(ListedPairs)
    /\ LET pair == ListedPairs[Len(products_df) + 1]
       IN  products_df' = Append(products_df,
                                 NewProduct(Len(products_df) + 1, pair[1], pair[2]))
    /\ UNCHANGED <<data, purchases, pc>> /\ GenFrame

\* lines 59-77
GenFillProduct ==
    /\ pc = "gen_products"
    /\ Len(products_df) >= Len(ListedPairs)
    /\ Len(products_df) + 1 <= NUM_PRODUCTS
    /\ \E category \in Range(CategoryOrder) :
        \E subcategory \in Range(PRODUCT_CATEGORIES[category]) :
            products_df' = Append(products_df,
                                  NewProduct(Len(products_df) + 1, category, subcategory))
    /\ UNCHANGED <<data, purchases, pc>> /\ GenFrame

\* line 79, then lines 165-166
GenProductsDone ==
    /\ pc = "gen_products"
    /\ Len(products_df) >= Len(ListedPairs)
    /\ Len(products_df) + 1 > NUM_PRODUCTS
    /\ pc' = "gen_purchases"
    /\ UNCHANGED <<data, products_df, purchases>> /\ GenFrame

\* lines 122-159, the else branch of line 129
GenPurchaseAny(customer, i, quantity) ==
    /\ pc = "gen_purchases"
    /\ Len(purchases) < NUM_PURCHASES
    /\ i \in DOMAIN products_df
    /\ purchases' = Append(purchases,
                           NewPurchase(customer, products_df[i], quantity))
    /\ UNCHANGED <<data, products_df, pc>> /\ GenFrame

\* lines 122-159, the branch of lines 126-128
GenPurchaseLastCategory(customer, i, quantity) ==
    /\ pc = "gen_purchases"
    /\ Len(purchases) < NUM_PURCHASES
    /\ \E k \in DOMAIN purchases : purchases[k].Customer_ID = customer
    /\ i \in DOMAIN products_df
    /\ products_df[i].Category = purchases[Len(purchases)].Category
    /\ purchases' = Append(purchases,
                           NewPurchase(customer, products_df[i], quantity))
    /\ UNCHANGED <<data, products_df, pc>> /\ GenFrame

\* lines 161-181
GenSave ==
    /\ pc = "gen_purchases"
    /\ Len(purchases) = NUM_PURCHASES
    /\ data' = FinalData(purchases)
    /\ pc' = "gen_done"
    /\ UNCHANGED <<products_df, purchases>> /\ GenFrame

InitGen ==
    /\ data = <<>>
    /\ data_surprise = None /\ race = <<>>
    /\ products_df = <<>> /\ purchases = <<>>
    /\ modelFile = Absent /\ paramsFile = Absent
    /\ pc = "gen_products" /\ page = "none"
    /\ model = None /\ best_params = None /\ fitted = FALSE
    /\ recs = <<>> /\ user_id = 0 /\ n = 0
    /\ seen = <<FALSE, FALSE>>
    /\ coldStart = TRUE
    /\ calls = 0 /\ returned = 0
    /\ prevModel = None
    /\ wrotePrev = FALSE /\ wroteCur = FALSE

NextGen ==
    \/ GenListedProduct
    \/ GenFillProduct
    \/ GenProductsDone
    \/ \E customer \in Customers, i \in 1..NUM_PRODUCTS, quantity \in Quantities :
        \/ GenPurchaseAny(customer, i, quantity)
        \/ GenPurchaseLastCategory(customer, i, quantity)
    \/ GenSave

SpecGen == InitGen /\ [][NextGen]_vars

(***************************************************************************)
(* Properties of get_recommendations_for_user, checked under SpecRec.      *)
(***************************************************************************)
Called == pc = "recommended"
CorpusProducts == {data[j].Product_ID : j \in DOMAIN data}
CorpusCustomers == {data[j].Customer_ID : j \in DOMAIN data}
PurchasedBy(uid) == {data[j].Product_ID : j \in {i \in DOMAIN data : data[i].Customer_ID = uid}}
CandidateSet == CorpusProducts \ PurchasedBy(user_id)
RecProducts == {recs[i].Product_ID : i \in DOMAIN recs}
FirstRowOf(p) == CHOOSE j \in DOMAIN data :
                    /\ data[j].Product_ID = p
                    /\ \A i \in 1..(j - 1) : data[i].Product_ID # p

\* C1: for a customer with at least one purchase row, no recommended
\* Product_ID is the Product_ID of a row of that customer.
C1_NoRepeatRecommendations ==
    (Called /\ PurchasedBy(user_id) # {}) =>
        RecProducts \cap PurchasedBy(user_id) = {}

C1_Witness ==
    Called /\ PurchasedBy(user_id) # {} /\ Len(recs) >= 2

\* C6: the returned sequence is non-increasing in Estimated_Rating.
C6_Ordering ==
    Called =>
        \A i \in 1..(Len(recs) - 1) :
            recs[i].Estimated_Rating >= recs[i + 1].Estimated_Rating

\* two results of different rating whose products appear in the corpus in
\* the opposite order
C6_Witness ==
    /\ Called /\ Len(recs) >= 2
    /\ recs[1].Estimated_Rating > recs[2].Estimated_Rating
    /\ FirstRowOf(recs[1].Product_ID) > FirstRowOf(recs[2].Product_ID)

\* C7: for a count n >= 0 the result has min(n, candidate_count) entries,
\* candidate_count being the number of distinct products of the corpus the
\* customer has not purchased.
C7_Truncation ==
    (Called /\ n >= 0) => Len(recs) = Min2(n, Cardinality(CandidateSet))

C7_Witness ==
    Called /\ n >= 1 /\ Cardinality(CandidateSet) > n /\ Len(recs) = n

\* C8: when the count is at least the number of candidates, the returned
\* Product_IDs are exactly the corpus products minus the customer's purchases.
C8_ExactCandidateSet ==
    (Called /\ n >= Cardinality(CandidateSet)) => RecProducts = CandidateSet

C8_Witness ==
    /\ Called /\ n >= Cardinality(CandidateSet)
    /\ Cardinality(CandidateSet) = 2 /\ PurchasedBy(user_id) # {}

\* C10: for a customer in no corpus row every distinct product is a
\* candidate: the result has min(n, number of distinct products) entries,
\* all of them corpus products, and all the corpus products when n allows.
C10_UnseenCustomer ==
    (Called /\ user_id \notin CorpusCustomers) =>
        /\ PurchasedBy(user_id) = {}
        /\ Len(recs) = Min2(n, Cardinality(CorpusProducts))
        /\ RecProducts \subseteq CorpusProducts
        /\ Cardinality(RecProducts) = Len(recs)

C10_Witness ==
    /\ Called /\ user_id \notin CorpusCustomers
    /\ Cardinality(CorpusProducts) = 3 /\ Len(recs) = 3

(***************************************************************************)
(* Properties of train_and_save_model in the script run, checked under     *)
(* Spec.                                                                   *)
(***************************************************************************)
InCall == pc \in {"check", "return"} \cup LoadPcs \cup TrainPcs
SawBoth == seen = <<TRUE, TRUE>>

\* C2: a call that finds both artifacts runs no grid search and no fit,
\* writes neither file, and returns the model unpickled from model.pkl,
\* whatever corpus it was given.
C2_CacheLoadPath ==
    (InCall /\ SawBoth) =>
        /\ pc \notin TrainPcs
        /\ ~fitted
        /\ ~wroteCur
        /\ modelFile.kind = "pickle" /\ paramsFile.kind = "pickle"
        /\ (pc = "return" => model = modelFile.obj)

\* the load path returning a model fitted on a corpus of another rating scale
C2_Witness ==
    pc = "return" /\ SawBoth /\ model.rating_scale # RatingScaleOf(data)

\* C3: a call that finds model.pkl or best_params.pkl missing never takes
\* the load path; it trains, and when it returns both files hold the model
\* and the hyperparameters of this call.
C3_TrainWhenArtifactMissing ==
    (InCall /\ ~SawBoth) =>
        /\ pc \notin LoadPcs
        /\ (pc = "return" =>
               /\ fitted
               /\ modelFile = Pickled(model)
               /\ paramsFile = Pickled(best_params)
               /\ model.params = best_params
               /\ model.rating_scale = RatingScaleOf(data))

\* a lone model.pkl found and overwritten
C3_Witness ==
    pc = "return" /\ seen = <<TRUE, FALSE>> /\ modelFile = Pickled(model)

C5_CacheStability ==
    (pc = "return" /\ prevModel # None /\ ~wrotePrev) => model = prevModel

\* the second of two such calls, in a later script run, on a corpus whose
\* rating scale is not the model's
C5_Witness ==
    /\ pc = "return" /\ prevModel # None /\ ~wrotePrev
    /\ page = "recommender" /\ returned = 2
    /\ model.rating_scale # RatingScaleOf(data)

\* C9: every Estimated_Rating a page shows lies within the [min, max] of
\* the Purchase_Amount_Scaled values of the corpus of its script run.
C9_RatingWithinCorpusScale ==
    \A i \in DOMAIN recs :
        /\ RatingScaleOf(data)[1] <= recs[i].Estimated_Rating
        /\ recs[i].Estimated_Rating <= RatingScaleOf(data)[2]

(***************************************************************************)
(* Properties of the reason text and of the metadata lookup, checked under *)
(* SpecReason.                                                             *)
(***************************************************************************)
\* the clause occurs in the reason as a run of consecutive pieces
ContainsClause(reason, clause) ==
    \E k \in 0..(Len(reason) - Len(clause)) :
        \A j \in 1..Len(clause) : reason[k + j] = clause[j]

CustomerRows == {j \in DOMAIN data : data[j].Customer_ID = user_id}

\* C11: a recommendation's Reason contains the category clause exactly when
\* the corpus has a row of the customer whose Category is the
\* recommendation's Category.
C11_CategoryClause ==
    Called =>
        \A i \in DOMAIN recs :
            ContainsClause(recs[i].Reason, CategoryClause(recs[i].Category))
                <=> (\E j \in CustomerRows : data[j].Category = recs[i].Category)

C11_Witness ==
    /\ Called
    /\ \E i \in DOMAIN recs :
        /\ ContainsClause(recs[i].Reason, CategoryClause(recs[i].Category))
        /\ \E j \in CustomerRows : data[j].Category # recs[i].Category

\* C12 as stated: the Reason contains the subcategory clause exactly when
\* the customer has a row whose Subcategory is the recommendation's
\* Subcategory, whatever the Category of that row.
C12_SubcategoryNameAlone ==
    Called =>
        \A i \in DOMAIN recs :
            ContainsClause(recs[i].Reason, SubcategoryClause(recs[i].Subcategory))
                <=> (\E j \in CustomerRows : data[j].Subcategory = recs[i].Subcategory)

\* C12: the Reason contains the subcategory clause exactly when the
\* customer has a row whose Category and Subcategory are both the
\* recommendation's; a customer with rows in the recommendation's Category
\* and none in its Subcategory there gets the category clause without the
\* subcategory clause.
C12_SubcategoryWithinCategory ==
    Called =>
        \A i \in DOMAIN recs :
            /\ ContainsClause(recs[i].Reason, SubcategoryClause(recs[i].Subcategory))
                <=> (\E j \in CustomerRows :
                        /\ data[j].Category = recs[i].Category
                        /\ data[j].Subcategory = recs[i].Subcategory)
            /\ ( /\ \E j \in CustomerRows : data[j].Category = recs[i].Category
                 /\ \A j \in CustomerRows : data[j].Subcategory # recs[i].Subcategory )
                => /\ ContainsClause(recs[i].Reason, CategoryClause(recs[i].Category))
                   /\ ~ContainsClause(recs[i].Reason,
                                      SubcategoryClause(recs[i].Subcategory))

C12_Witness ==
    /\ Called
    /\ CustomerRows # {}
    /\ \A j \in CustomerRows :
        data[j].Category = "Electronics" /\ data[j].Subcategory = "Laptops"
    /\ \E i \in DOMAIN recs :
        /\ recs[i].Category = "Electronics" /\ recs[i].Subcategory = "Accessories"
        /\ ContainsClause(recs[i].Reason, CategoryClause("Electronics"))
        /\ ~ContainsClause(recs[i].Reason, SubcategoryClause("Accessories"))

RECURSIVE SumAmounts(_)
SumAmounts(rows) ==
    IF rows = {} THEN 0
    ELSE LET j == CHOOSE k \in rows : TRUE
         IN  data[j].Purchase_Amount + SumAmounts(rows \ {j})

PairRows(cat, sub) ==
    {j \in DOMAIN data : data[j].Category = cat /\ data[j].Subcategory = sub}

\* C13: every Reason contains the popularity clause and the predicted-rating
\* clause, and the revenue of the popularity clause is the sum of
\* Purchase_Amount over all rows, of every customer, whose (Category,
\* Subcategory) pair is the recommendation's.
C13_AlwaysPresentClauses ==
    Called =>
        \A i \in DOMAIN recs :
            /\ ContainsClause(recs[i].Reason,
                   PopularityClause(SumAmounts(PairRows(recs[i].Category,
                                                        recs[i].Subcategory))))
            /\ ContainsClause(recs[i].Reason, RatingClause(recs[i].Estimated_Rating))

C13_Witness ==
    /\ Called
    /\ \E i \in DOMAIN recs :
        LET rows == PairRows(recs[i].Category, recs[i].Subcategory)
        IN  /\ \E j, k \in rows : data[j].Customer_ID # data[k].Customer_ID
            /\ \E j \in DOMAIN data \ rows : data[j].Category = recs[i].Category
            /\ ContainsClause(recs[i].Reason, PopularityClause(SumAmounts(rows)))

Separator == <<Text("; ")>>
Wrapped(clauses) == <<Text("Recommended because ")>> \o clauses \o <<Text(".")>>
TotalRevenue == SumAmounts(DOMAIN data)

\* the texts the template allows for a recommendation: the popularity and
\* rating clauses last, preceded by none, one or both of the category and
\* subcategory clauses in that order, with "; " between neighbours
AllowedReasons(rec) ==
    LET cat == CategoryClause(rec.Category)
        sub == SubcategoryClause(rec.Subcategory)
        rating == RatingClause(rec.Estimated_Rating)
    IN  UNION {
            LET last == PopularityClause(x) \o Separator \o rating
            IN  {Wrapped(last),
                 Wrapped(cat \o Separator \o last),
                 Wrapped(sub \o Separator \o last),
                 Wrapped(cat \o Separator \o sub \o Separator \o last)} :
            x \in 0..TotalRevenue}

\* C14: every Reason is "Recommended because <clauses>." with the included
\* clauses in the order category, subcategory, popularity, rating, joined
\* with "; ": 2 to 4 clauses, the last two popularity then rating.
C14_ClauseOrderAndTemplate ==
    Called => \A i \in DOMAIN recs : recs[i].Reason \in AllowedReasons(recs[i])

C14_Witness ==
    /\ Called
    /\ \E i, k \in DOMAIN data :
        data[i].Category # data[k].Category /\ data[i].Customer_ID = user_id
    /\ \E i \in DOMAIN recs :
        recs[i].Reason =
            Wrapped(CategoryClause(recs[i].Category) \o Separator
                    \o SubcategoryClause(recs[i].Subcategory) \o Separator
                    \o PopularityClause(SumAmounts(PairRows(recs[i].Category,
                                                            recs[i].Subcategory)))
                    \o Separator \o RatingClause(recs[i].Estimated_Rating))

\* C15: the Category and Subcategory of every recommendation are those of
\* the first corpus row, in corpus order, with the recommended Product_ID,
\* also when the rows of that product differ in Category or Subcategory.
C15_FirstMatchLookup ==
    Called =>
        \A i \in DOMAIN recs :
            LET first == data[FirstRowOf(recs[i].Product_ID)]
            IN  /\ recs[i].Category = first.Category
                /\ recs[i].Subcategory = first.Subcategory

(***************************************************************************)
(* The tie-break of the sort, checked under SpecRec.                       *)
(***************************************************************************)
\* C16: of two candidates with equal estimated ratings the one that appears
\* first in the corpus comes first in the result, and it is the one kept
\* when the truncation to n drops the other.
C16_StableTieBreak ==
    Called =>
        /\ \A i, k \in DOMAIN recs :
            (i < k /\ recs[i].Estimated_Rating = recs[k].Estimated_Rating)
                => FirstRowOf(recs[i].Product_ID) < FirstRowOf(recs[k].Product_ID)
        /\ \A i \in DOMAIN recs : \A p \in CandidateSet \ RecProducts :
            Predict(model, user_id, p) = recs[i].Estimated_Rating
                => FirstRowOf(recs[i].Product_ID) < FirstRowOf(p)

C16_Witness ==
    /\ Called /\ Len(recs) = 2
    /\ recs[1].Estimated_Rating = recs[2].Estimated_Rating
    /\ recs[1].Product_ID > recs[2].Product_ID
    /\ \E p \in CandidateSet \ RecProducts :
        Predict(model, user_id, p) = recs[2].Estimated_Rating

(***************************************************************************)
(* Properties of one train_and_save_model call, checked under SpecTrain.   *)
(***************************************************************************)
\* exp(x) - 1 in thousandths, x in thousandths, on the values np.log1p gives
Expm1(x) ==
    CASE x = 0 -> 0
      [] x = 693 -> 1000
      [] x = 1099 -> 2001
      [] x = 1386 -> 2999
      [] x = 1609 -> 3998
      [] x = 1792 -> 5001
      [] OTHER -> 6001

RoundToUnit(thousandths) == (thousandths + 500) \div 1000

\* C17: the dataset built from the corpus has exactly one triple per corpus
\* row, in row order: the row's Customer_ID, its Product_ID and ln(1 + its
\* Purchase_Amount), from which exp(.) - 1 gives the amount back; rows with
\* the same customer and product each keep their triple.
C17_RatingMatrixBuilder ==
    data_surprise # None =>
        /\ Len(data_surprise.raw_ratings) = Len(data)
        /\ \A i \in DOMAIN data :
            LET t == data_surprise.raw_ratings[i]
            IN  /\ t[1] = data[i].Customer_ID
                /\ t[2] = data[i].Product_ID
                /\ t[3] = Log1p(data[i].Purchase_Amount)
                /\ RoundToUnit(Expm1(t[3])) = data[i].Purchase_Amount

C17_Witness ==
    /\ data_surprise # None
    /\ \E i, k \in DOMAIN data :
        /\ i < k
        /\ data[i].Customer_ID = data[k].Customer_ID
        /\ data[i].Product_ID = data[k].Product_ID
        /\ data_surprise.raw_ratings[i] = data_surprise.raw_ratings[k]
    /\ Len(data_surprise.raw_ratings) = 4

\* C18: on a corpus that lacks Customer_ID, Product_ID or Purchase_Amount
\* the call raises before the artifacts are looked at: no grid search, no
\* fit, no artifact read or written, whether or not artifacts are cached.
C18_MissingColumnsRaiseFirst ==
    ~HasColumns(data, RequiredColumns) =>
        /\ pc \in {"scale", "start"}
        /\ data_surprise = None
        /\ model = None /\ best_params = None
        /\ ~fitted /\ ~wroteCur
        /\ modelFile # Partial /\ paramsFile # Partial

C18_Witness ==
    /\ pc = "start" /\ calls = 1
    /\ ~HasColumns(data, {"Customer_ID"})
    /\ HasColumns(data, {"Purchase_Amount_Scaled"})
    /\ Exists(modelFile) /\ Exists(paramsFile)
    /\ model = None

(***************************************************************************)
(* The corpus across a call, checked under Spec.                           *)
(***************************************************************************)
OtherColumns(row) == (DOMAIN row) \ {"Purchase_Amount_Scaled"}

\* C19: on the load path and on the training path the corpus the call
\* returns is the corpus it was given with Purchase_Amount_Scaled added, or
\* overwritten with the same values when it was there, every other column,
\* the row count and the row order unchanged; the page's own frame is the
\* one that changes.
C19_CorpusAnnotation ==
    [][ /\ (pc = "scale" /\ pc' = "check") =>
            /\ Len(data') = Len(data)
            /\ \A i \in DOMAIN data :
                /\ DOMAIN data'[i] = DOMAIN data[i] \cup {"Purchase_Amount_Scaled"}
                /\ \A c \in OtherColumns(data[i]) : data'[i][c] = data[i][c]
                /\ data'[i].Purchase_Amount_Scaled = Log1p(data[i].Purchase_Amount)
                /\ "Purchase_Amount_Scaled" \in DOMAIN data[i]
                    => data'[i].Purchase_Amount_Scaled = data[i].Purchase_Amount_Scaled
        /\ InCall => data' = data
      ]_vars

C19_Witness ==
    /\ pc = "recommend" /\ page = "report" /\ calls = 2 /\ returned = 2
    /\ coldStart /\ ~fitted /\ model # None
    /\ HasColumns(data, {"Purchase_Amount_Scaled"})

(***************************************************************************)
(* Two concurrent train_and_save_model calls, checked under SpecRace.      *)
(***************************************************************************)
RaceEnded(p) == race.inv[p].pc \in {"done", "raised"}
RaceLoading(p) == race.inv[p].pc \in LoadPcs
RaceTrained(p) == race.inv[p].pc = "done" /\ race.inv[p].fitted

\* C20: nothing orders two concurrent calls that start with no artifacts:
\* a call that has not ended can always take its next step wherever the
\* other call is; a call is on the load path only when the other call has
\* opened best_params.pkl for writing, possibly not yet written it; and a
\* completely written file holds what the call that wrote it last fitted,
\* whichever call wrote the other file.
C20_UnguardedRace ==
    /\ \A p \in Invocations : ~RaceEnded(p) => ENABLED RaceStep(p)
    /\ \A p \in Invocations :
        RaceLoading(p) =>
            \E q \in Invocations \ {p} :
                race.inv[q].pc \in {"dump_params", "return", "done"}
    /\ modelFile.kind = "pickle" =>
        /\ race.modelBy \in Invocations
        /\ modelFile.obj = race.inv[race.modelBy].model
    /\ paramsFile.kind = "pickle" =>
        /\ race.paramsBy \in Invocations
        /\ paramsFile.obj = race.inv[race.paramsBy].best_params

\* both calls saw the artifacts missing, fitted and wrote, and the two
\* files left behind come from different calls
C20_Witness ==
    /\ \A p \in Invocations : RaceTrained(p)
    /\ race.modelBy # race.paramsBy
    /\ modelFile = Pickled(race.inv[race.modelBy].model)
    /\ paramsFile = Pickled(race.inv[race.paramsBy].best_params)
    /\ modelFile.obj.params # paramsFile.obj

\* one call is on the load path while the other is still writing
\* best_params.pkl
C20_LoadsWhileWriting ==
    \E p, q \in Invocations :
        /\ RaceLoading(p)
        /\ race.inv[q].pc = "dump_params"
        /\ paramsFile = Partial

(***************************************************************************)
(* Artifacts that do not deserialize, checked under SpecCorrupt.           *)
(***************************************************************************)
CorruptCache ==
    /\ Exists(modelFile) /\ Exists(paramsFile)
    /\ modelFile = Corrupt \/ paramsFile = Corrupt

\* between calls, or in a call that found both files and is on its way to
\* the pickle.load that fails
FailingOnCorruptCache ==
    /\ CorruptCache
    /\ \/ pc \in {"start", "scale"}
       \/ pc \in {"check"} \cup LoadPcs /\ SawBoth

\* C21: when both files exist and one of them does not deserialize, a call
\* raises: it reaches neither the training path nor its return, it leaves
\* both files as they are, and so does every later call.
C21_CorruptArtifactFailsFast ==
    [][ FailingOnCorruptCache =>
            /\ FailingOnCorruptCache'
            /\ UNCHANGED disk
            /\ ~fitted' /\ returned' = returned
      ]_vars

C21_Witness ==
    /\ CorruptCache /\ modelFile.kind = "pickle"
    /\ pc = "start" /\ calls = 2 /\ returned = 0
    /\ ~fitted /\ ~wroteCur /\ ~wrotePrev

(***************************************************************************)
(* Repeated get_recommendations_for_user calls, checked under SpecRepeat.  *)
(***************************************************************************)
Recalled == pc \in {"recommended", "again"}

\* the (product, estimate) pairs lines 77-80 ask the model for
EstimatesOf(uid) == Predictions(data, model, uid)

FirstOf(s, k) == [i \in 1..(IF k <= Len(s) THEN k ELSE Len(s)) |-> s[i]]

\* C24: for one customer, corpus and model and 0 <= n <= m, the result for
\* n is the first n entries of the result for m, every field the same: of
\* two consecutive calls for one customer, the one with the smaller n
\* returns the start of what the other returns.
C24_PrefixConsistency ==
    [][ (Recalled /\ Recalled' /\ user_id' = user_id) =>
            /\ n' <= n => recs' = FirstOf(recs, n')
            /\ n <= n' => recs = FirstOf(recs', n)
      ]_vars

C24_Witness ==
    /\ pc = "again"
    /\ n = 1 /\ Len(recs) = 1
    /\ Cardinality(CandidateSet) = 3
    /\ \E p \in CandidateSet : Predict(model, user_id, p) < recs[1].Estimated_Rating

(***************************************************************************)
(* The order of the two writes, checked under SpecInterrupt.               *)
(***************************************************************************)
\* C23: in a run from no artifacts, with calls that fail or are cut short
\* anywhere: a call writes nothing before its fit has succeeded;
\* best_params.pkl is opened only when model.pkl holds the complete model,
\* so whenever best_params.pkl exists model.pkl is completely written; and
\* a call that finds model.pkl without best_params.pkl trains again.
C23_ArtifactWriteOrder ==
    [][ /\ disk' # disk => (fitted /\ model # None /\ pc \in TrainPcs)
        /\ pc' = "dump_params" => modelFile' = Pickled(model')
        /\ Exists(paramsFile') => modelFile'.kind = "pickle"
        /\ (pc = "check" /\ Exists(modelFile) /\ ~Exists(paramsFile))
                => pc' \in {"grid_search", "start"}
      ]_vars

C23_Witness ==
    /\ pc = "grid_search" /\ calls = 2 /\ returned = 0
    /\ modelFile.kind = "pickle" /\ ~Exists(paramsFile)
    /\ ~wroteCur /\ wrotePrev

(***************************************************************************)
(* Distinct products in a result, checked under SpecRec.                   *)
(***************************************************************************)
\* C25: no Product_ID appears twice in a result, however many corpus rows
\* the product has.
C25_NoDuplicateRecommendations ==
    Called =>
        \A i, k \in DOMAIN recs :
            recs[i].Product_ID = recs[k].Product_ID => i = k

C25_Witness ==
    /\ Called /\ Len(recs) = 2
    /\ \E i, k \in DOMAIN data :
        i # k /\ data[i].Product_ID = data[k].Product_ID
              /\ data[i].Product_ID \in RecProducts

(***************************************************************************)
(* The two conditional clauses together, checked under SpecReason.         *)
(***************************************************************************)
\* C26: a Reason that contains the subcategory clause contains the category
\* clause directly before it, "; " between them.
C26_SubcategoryImpliesCategory ==
    Called =>
        \A i \in DOMAIN recs :
            ContainsClause(recs[i].Reason, SubcategoryClause(recs[i].Subcategory))
                => ContainsClause(recs[i].Reason,
                                  CategoryClause(recs[i].Category) \o Separator
                                      \o SubcategoryClause(recs[i].Subcategory))

C26_Witness ==
    /\ Called
    /\ \E i \in DOMAIN recs :
        /\ ContainsClause(recs[i].Reason, SubcategoryClause(recs[i].Subcategory))
        /\ \E j \in CustomerRows :
            /\ data[j].Subcategory = recs[i].Subcategory
            /\ data[j].Category # recs[i].Category

(***************************************************************************)
(* The generated corpus, checked under SpecGen.                            *)
(***************************************************************************)
ProductIds == {products_df[i].Product_ID : i \in DOMAIN products_df}

CopiedFromDefinition(row) ==
    \E i \in DOMAIN products_df :
        /\ products_df[i].Product_ID = row.Product_ID
        /\ products_df[i].Category = row.Category
        /\ products_df[i].Subcategory = row.Subcategory

SamePairPerProduct(rows) ==
    \A i, k \in DOMAIN rows :
        rows[i].Product_ID = rows[k].Product_ID
            => /\ rows[i].Category = rows[k].Category
               /\ rows[i].Subcategory = rows[k].Subcategory

\* C27: the generator defines each product id once, the ids being exactly
\* 1..NUM_PRODUCTS when the product table is complete; every purchase row
\* has the Category and Subcategory of its product's definition; so rows
\* with the same Product_ID carry the same (Category, Subcategory) pair, in
\* the purchase list and in the file written from it.
C27_GeneratedMetadataDependency ==
    /\ \A i, k \in DOMAIN products_df :
        products_df[i].Product_ID = products_df[k].Product_ID => i = k
    /\ pc \in {"gen_purchases", "gen_done"} => ProductIds = 1..NUM_PRODUCTS
    /\ \A i \in DOMAIN purchases : CopiedFromDefinition(purchases[i])
    /\ \A i \in DOMAIN data : CopiedFromDefinition(data[i])
    /\ SamePairPerProduct(purchases) /\ SamePairPerProduct(data)

C27_Witness ==
    /\ pc = "gen_done" /\ Len(data) = NUM_PURCHASES
    /\ data[1].Product_ID = NUM_PRODUCTS /\ data[2].Product_ID = NUM_PRODUCTS
    /\ data[1].Customer_ID # data[2].Customer_ID
    /\ \E i \in DOMAIN products_df :
        /\ products_df[i].Product_ID # NUM_PRODUCTS
        /\ products_df[i].Category = data[1].Category
        /\ products_df[i].Subcategory = data[1].Subcategory

====
